---- MODULE Spec2Model ----
(***************************************************************************)
(* Person-name extraction server (name_server.py): the heuristic layer     *)
(* over the entity recognizer.  A text is a sequence of characters (each a *)
(* one-character string; U+2019 is written "U+2019"); offsets are the      *)
(* 0-based offsets of the source, so text[a:b] is SubSeq(text, a+1, b).    *)
(***************************************************************************)
EXTENDS Integers, Sequences, FiniteSets, TLC

\* pc         where the server is: "idle", "received" (a request is about to
\*            be handled), "responded"
\* data       the JSON body of the request: has_text, text
\* nlp        the recognizer: the entities it gives for each text asked so far
\* nlp_calls  how often nlp was invoked during the current request
\* by_name    the handler's dict, as it is when the handler returns
\* log        for each entity of the request, what the loop decided for it
\* response   the response body
\* served     per text, the first response given and the number of requests
\* nreq       the number of requests received
VARIABLES pc, data, nlp, nlp_calls, by_name, log, response, served, nreq

vars == <<pc, data, nlp, nlp_calls, by_name, log, response, served, nreq>>

----------------------------------------------------------------------------
(* Characters *)

NL == "\n"
RSQUO == "U+2019"

\* str.strip()/str.rstrip() and the regex class \s (those of the model alphabet)
Whitespace == {" ", NL}

\* rstrip(".,;:")
TitlePunct == {".", ",", ";", ":"}

\* the character class ['’]
Apostrophes == {"'", RSQUO}

Max(S) == CHOOSE x \in S : \A y \in S : y <= x
Min(S) == CHOOSE x \in S : \A y \in S : x <= y

\* text[a:b] for 0 <= a, b (Python clamps the slice to the string)
Slice(s, a, b) == SubSeq(s, a + 1, IF b > Len(s) THEN Len(s) ELSE b)

rstrip_chars(s, C) ==
    SubSeq(s, 1, Max({k \in 0..Len(s) : k = 0 \/ s[k] \notin C}))

lstrip_chars(s, C) ==
    SubSeq(s, Min({k \in 1..(Len(s) + 1) : k = Len(s) + 1 \/ s[k] \notin C}), Len(s))

rstrip(s) == rstrip_chars(s, Whitespace)

strip(s) == lstrip_chars(rstrip(s), Whitespace)

lower_char(c) == IF c = "M" THEN "m" ELSE IF c = "S" THEN "s" ELSE c

lower(s) == [i \in 1..Len(s) |-> lower_char(s[i])]

startswith(s, p) == Len(p) <= Len(s) /\ SubSeq(s, 1, Len(p)) = p

\* str.rfind: the highest 0-based index at which sub occurs in s, -1 if none
rfind(s, sub) ==
    LET At == {i \in 0..(Len(s) - Len(sub)) : Slice(s, i, i + Len(sub)) = sub}
    IN  IF At = {} THEN -1 ELSE Max(At)

\* Where the regex ['’]s$ matches in s (0-based start of the match), -1
\* if nowhere.  Python's $ matches at the end of the string and also just
\* before a newline that ends the string.
poss_match(s) ==
    LET n == Len(s)
        AtEnd == n >= 2 /\ s[n - 1] \in Apostrophes /\ s[n] = "s"
        BeforeNl == n >= 3 /\ s[n] = NL /\ s[n - 2] \in Apostrophes /\ s[n - 1] = "s"
    IN  IF BeforeNl THEN n - 3 ELSE IF AtEnd THEN n - 2 ELSE -1

\* re.sub(r"['’]s$", "", s)
sub_possessive(s) ==
    LET i == poss_match(s)
    IN  IF i < 0 THEN s ELSE SubSeq(s, 1, i) \o SubSeq(s, i + 3, Len(s))

----------------------------------------------------------------------------
(* The title dictionary *)

TITLES ==
    { <<"m","r">>,
      <<"m","r","s">>,
      <<"m","s">>,
      <<"d","r">>,
      <<"p","r","o","f">>,
      <<"s","i","r">>,
      <<"d","a","m","e">>,
      <<"l","o","r","d">>,
      <<"l","a","d","y">>,
      <<"r","e","v">>,
      <<"s","g","t">>,
      <<"c","p","l">>,
      <<"l","t">>,
      <<"c","a","p","t">>,
      <<"m","a","j">>,
      <<"c","o","l">>,
      <<"g","e","n">>,
      <<"c","m","d","r">>,
      <<"s","u","p","t">>,
      <<"d","e","t">>,
      <<"i","n","s","p">>,
      <<"j","u","d","g","e">>,
      <<"j","u","s","t","i","c","e">>,
      <<"b","a","r","o","n">>,
      <<"b","a","r","o","n","e","s","s">>,
      <<"p","r","i","n","c","e">>,
      <<"p","r","i","n","c","e","s","s">>,
      <<"k","i","n","g">>,
      <<"q","u","e","e","n">>,
      <<"p","r","e","s","i","d","e","n","t">>,
      <<"s","e","n","a","t","o","r">>,
      <<"g","o","v","e","r","n","o","r">>,
      <<"m","a","y","o","r">>,
      <<"c","o","u","n","c","i","l","l","o","r">>,
      <<"m","i","n","i","s","t","e","r">>,
      <<"s","e","c","r","e","t","a","r","y">>,
      <<"c","a","r","d","i","n","a","l">>,
      <<"a","r","c","h","b","i","s","h","o","p">>,
      <<"b","i","s","h","o","p">>,
      <<"f","a","t","h","e","r">>,
      <<"s","i","s","t","e","r">>,
      <<"b","r","o","t","h","e","r">>,
      <<"s","h","e","i","k","h">>,
      <<"i","m","a","m">>,
      <<"r","a","b","b","i">>,
      <<"a","y","a","t","o","l","l","a","h">> }

----------------------------------------------------------------------------
(* The heuristics *)

\* re.search(r'(\S+)$', before): the last maximal run of non-whitespace of a
\* string that does not end in whitespace; <<>> when there is no match
last_token(before) ==
    LET n == Len(before)
        From == {j \in 1..(n + 1) : \A i \in j..n : before[i] \notin Whitespace}
    IN  SubSeq(before, Min(From), n)

preceding_word(text, start) ==
    LET before == rstrip(Slice(text, 0, start))
        m == last_token(before)
    IN  IF m # <<>> THEN rstrip_chars(m, TitlePunct) ELSE <<>>

\* ent.text: the characters of the span
ent_text(ent, text) == Slice(text, ent.start_char, ent.end_char)

has_possessive(etext, text, end) ==
    IF poss_match(etext) >= 0
    THEN TRUE
    ELSE LET rest == Slice(text, end, Len(text))
         IN  startswith(rest, <<RSQUO, "s">>) \/ startswith(rest, <<"'", "s">>)

NonPersonLabels == {"ORG", "GPE", "FAC", "NORP", "EVENT"}

is_likely_person(ent, text) ==
    IF ent.label_ = "PERSON" THEN TRUE
    ELSE IF strip(ent_text(ent, text)) = <<>> THEN FALSE
    ELSE IF lower(preceding_word(text, ent.start_char)) \in TITLES THEN TRUE
    ELSE IF has_possessive(ent_text(ent, text), text, ent.end_char)
            /\ ent.label_ \notin NonPersonLabels THEN TRUE
    ELSE FALSE

\* str.find: the lowest 0-based index at which sub occurs in s, -1 if none
find(s, sub) ==
    LET At == {i \in 0..(Len(s) - Len(sub)) : Slice(s, i, i + Len(sub)) = sub}
    IN  IF At = {} THEN -1 ELSE Min(At)

\* a variant that assumes the title is one space before start
title_start_one_space(text, start, prev) == start - Len(prev) - 1

\* a variant that takes the first occurrence of the title word in the text
title_start_first(text, start, prev) == find(rstrip(Slice(text, 0, start)), prev)

\* before.rfind(prev), the expanded start
title_start(text, start, prev) == rfind(rstrip(Slice(text, 0, start)), prev)

expand_with_title(text, start) ==
    LET prev == preceding_word(text, start)
    IN  IF lower(prev) \in TITLES THEN title_start(text, start, prev) ELSE start

\* a variant that leaves the possessive marker in the name
clean_name_keep_marker(text, start, end) == strip(Slice(text, start, end))

\* a variant without the strip() that follows re.sub
clean_name_no_final_strip(text, start, end) == sub_possessive(strip(Slice(text, start, end)))

\* name = text[start:end].strip(); name = re.sub(...).strip()
clean_name(text, start, end) == strip(sub_possessive(strip(Slice(text, start, end))))

----------------------------------------------------------------------------
(* The aggregation *)

\* the dict by_name as the sequence of its values, in insertion order
Names(bn) == {bn[i].name : i \in 1..Len(bn)}

IndexOf(bn, name) == CHOOSE i \in 1..Len(bn) : bn[i].name = name

\* a variant that makes a record for every occurrence
add_position_new_record(bn, name, start, end) ==
    Append(bn, [name |-> name, positions |-> <<[start |-> start, end |-> end]>>])

\* a variant that puts the new position and the new record first
add_position_front(bn, name, start, end) ==
    LET pos == [start |-> start, end |-> end]
    IN  IF name \in Names(bn)
        THEN [bn EXCEPT ![IndexOf(bn, name)].positions = <<pos>> \o @]
        ELSE <<[name |-> name, positions |-> <<pos>>]>> \o bn

\* if name not in by_name: by_name[name] = {...}
\* by_name[name]["positions"].append({"start": start, "end": end})
add_position(bn, name, start, end) ==
    LET pos == [start |-> start, end |-> end]
    IN  IF name \in Names(bn)
        THEN [bn EXCEPT ![IndexOf(bn, name)].positions = Append(@, pos)]
        ELSE Append(bn, [name |-> name, positions |-> <<pos>>])

\* the span at which an accepted entity is recorded
span_start(text, ent) == expand_with_title(text, ent.start_char)

\* a variant that ends the span before a possessive marker
span_end_before_marker(text, ent) ==
    IF poss_match(ent_text(ent, text)) >= 0 THEN ent.end_char - 2 ELSE ent.end_char

span_end(text, ent) == ent.end_char

\* one iteration of `for ent in doc.ents`: what the loop body decides for
\* one entity (person: it passed the filter; name = <<>>: it was skipped)
visit(ent, text) ==
    IF ~is_likely_person(ent, text)
    THEN [person |-> FALSE, start |-> -1, end |-> -1, name |-> <<>>]
    ELSE LET start == span_start(text, ent)
             end == span_end(text, ent)
         IN  [person |-> TRUE, start |-> start, end |-> end,
              name |-> clean_name(text, start, end)]

\* the rest of the loop body: `if not name: continue`, then the grouping
collect(bn, v) ==
    IF ~v.person \/ v.name = <<>> THEN bn ELSE add_position(bn, v.name, v.start, v.end)

RECURSIVE scan(_, _, _, _)
scan(bn, ents, i, text) ==
    IF i > Len(ents) THEN bn
    ELSE scan(collect(bn, visit(ents[i], text)), ents, i + 1, text)

\* a variant with by_name kept across requests (a module-level dict)
shared_by_name == by_name

\* by_name = {}
new_by_name == <<>>

\* data.get("text", "")
get_text(d) == IF d.has_text THEN d.text ELSE <<>>

\* a variant that tests the text without stripping it
is_blank_unstripped(text) == text = <<>>

\* not text.strip()
is_blank(text) == strip(text) = <<>>

\* jsonify({"names": list(by_name.values())})
names_of(bn) == [names |-> bn]

----------------------------------------------------------------------------
(* Inputs *)

Labels == {"PERSON", "ORG", "PRODUCT"}

Texts(A, n) == UNION {[1..k -> A] : k \in 0..n}

Spans(text) == {sp \in (0..Len(text)) \X (0..Len(text)) : sp[1] < sp[2]}

Ents(text, L) ==
    {[start_char |-> sp[1], end_char |-> sp[2], label_ |-> l] : sp \in Spans(text), l \in L}

EntSeqs(text, L, n) == UNION {[1..k -> Ents(text, L)] : k \in 0..n}

\* the texts and recognizer results of the serving specification
ServerChars == {"s", "m", " "}
MaxServerLen == 1
MaxRequests == 3
ServerTexts == Texts(ServerChars, MaxServerLen)
ServerEntSeqs(text) == EntSeqs(text, {"PERSON"}, 1)

\* doc = nlp(text): the recognizer is deterministic, so a text it has seen
\* gets the entities it got before
recognize(text) == IF text \in DOMAIN nlp THEN {nlp[text]} ELSE ServerEntSeqs(text)

----------------------------------------------------------------------------
(* The request handler *)

\* what has been answered so far: per text, the first response and the
\* number of requests for it
note(text, resp) ==
    IF text \in DOMAIN served
    THEN [served EXCEPT ![text].count = @ + 1]
    ELSE served @@ (text :> [first |-> resp, count |-> 1])

\* a request arrives: request.get_json()
receive ==
    /\ pc \in {"idle", "responded"}
    /\ nreq < MaxRequests
    /\ \E d \in {[has_text |-> FALSE, text |-> <<>>]}
                \cup {[has_text |-> TRUE, text |-> t] : t \in ServerTexts} :
          data' = d
    /\ pc' = "received"
    /\ nreq' = nreq + 1
    /\ nlp_calls' = 0
    /\ UNCHANGED <<nlp, by_name, response, served, log>>

\* POST /extract-names, the whole handler
extract_names ==
    /\ pc = "received"
    /\ LET text == get_text(data)
       IN  IF is_blank(text)
           THEN /\ response' = names_of(<<>>)
                /\ log' = <<>>
                /\ served' = note(text, names_of(<<>>))
                /\ UNCHANGED <<nlp, nlp_calls, by_name>>
           ELSE \E ents \in recognize(text) :
                  LET bn == scan(new_by_name, ents, 1, text)
                  IN  /\ nlp' = (IF text \in DOMAIN nlp THEN nlp ELSE nlp @@ (text :> ents))
                      /\ nlp_calls' = nlp_calls + 1
                      /\ by_name' = bn
                      /\ log' = [i \in 1..Len(ents) |-> visit(ents[i], text)]
                      /\ response' = names_of(bn)
                      /\ served' = note(text, names_of(bn))
    /\ pc' = "responded"
    /\ UNCHANGED <<data, nreq>>

----------------------------------------------------------------------------
(* Specifications *)

NoResponse == [names |-> <<>>]

\* one request, with the entities the recognizer gives for its text, about
\* to be handled
Start(d, ents) ==
    /\ pc = "received"
    /\ data = d
    /\ nlp = (get_text(d) :> ents)
    /\ nlp_calls = 0
    /\ by_name = <<>>
    /\ log = <<>>
    /\ response = NoResponse
    /\ served = << >>
    /\ nreq = 1

Posted(text) == [has_text |-> TRUE, text |-> text]

\* any text over Chars with at most one entity, or a body with no "text"
Chars == {" ", NL, "'", RSQUO, "s", "m"}
MaxLen == 4

Init ==
    \/ \E text \in Texts(Chars, MaxLen) : \E ents \in EntSeqs(text, Labels, 1) :
          Start(Posted(text), ents)
    \/ Start([has_text |-> FALSE, text |-> <<>>], <<>>)

Next == extract_names

Spec == Init /\ [][Next]_vars

\* titles in both cases and with punctuation, and longer texts in which a
\* title word occurs twice; one entity
CaseChars == {"m", "M", "s", " ", "."}
MaxCaseLen == 4
TitleChars == {"m", "s", " "}
MaxTitleLen == 6

InitTitle ==
    \/ \E text \in Texts(CaseChars, MaxCaseLen) : \E ents \in EntSeqs(text, Labels, 1) :
          Start(Posted(text), ents)
    \/ \E text \in Texts(TitleChars, MaxTitleLen) : \E ents \in EntSeqs(text, Labels, 1) :
          Start(Posted(text), ents)

SpecTitle == InitTitle /\ [][Next]_vars

\* several entities in one text, in any order
MultiChars == {"m", "s", " "}
MaxMultiLen == 3
MaxEnts == 2

InitMulti ==
    \E text \in Texts(MultiChars, MaxMultiLen) :
        \E ents \in EntSeqs(text, {"PERSON", "ORG"}, MaxEnts) :
            Start(Posted(text), ents)

SpecMulti == InitMulti /\ [][Next]_vars

\* several entities in text order, as doc.ents gives them: each starts at
\* or after the end of the one before
RECURSIVE OrderedEntSeqs(_, _, _, _)
OrderedEntSeqs(text, L, from, n) ==
    IF n = 0 THEN {<<>>}
    ELSE {<<>>} \cup
         UNION {{<<e>> \o rest : rest \in OrderedEntSeqs(text, L, e.end_char, n - 1)} :
                  e \in {x \in Ents(text, L) : x.start_char >= from}}

OrderedChars == {"m", "s", " ", "'"}
MaxOrderedLen == 3
MaxOrderedEnts == 3

InitOrdered ==
    \E text \in Texts(OrderedChars, MaxOrderedLen) :
        \E ents \in OrderedEntSeqs(text, {"PERSON", "ORG"}, 0, MaxOrderedEnts) :
            Start(Posted(text), ents)

SpecOrdered == InitOrdered /\ [][Next]_vars

\* a server answering one request after another
InitServer ==
    /\ pc = "idle"
    /\ data = [has_text |-> FALSE, text |-> <<>>]
    /\ nlp = << >>
    /\ nlp_calls = 0
    /\ by_name = <<>>
    /\ log = <<>>
    /\ response = NoResponse
    /\ served = << >>
    /\ nreq = 0

NextServer == receive \/ extract_names

SpecServer == InitServer /\ [][NextServer]_vars

----------------------------------------------------------------------------
(* Properties *)

Text == get_text(data)

Done == pc = "responded"

\* the entities the recognizer gives for the text of the request
Recognized == IF Text \in DOMAIN nlp THEN nlp[Text] ELSE <<>>

Records == response.names

RecordIx == 1..Len(Records)

PosIx(r) == 1..Len(Records[r].positions)

BlankText == \A i \in 1..Len(Text) : Text[i] \in Whitespace

IsMarker(a, b) == a \in Apostrophes /\ b = "s"

\* s ends with 's or ’s
EndsWithMarker(s) == Len(s) >= 2 /\ IsMarker(s[Len(s) - 1], s[Len(s)])

\* s starts with 's or ’s
StartsWithMarker(s) == Len(s) >= 2 /\ IsMarker(s[1], s[2])

DropMarker(s) == IF EndsWithMarker(s) THEN SubSeq(s, 1, Len(s) - 2) ELSE s

\* trim, remove one trailing possessive marker if present, trim again
Normalized(s) == strip(DropMarker(strip(s)))

\* the request had exactly one entity and the loop visited it
OneEntity == Len(Recognized) = 1 /\ Len(log) = 1

TheEnt == Recognized[1]

\* the single entity was recorded: one record with one position
RecordedOnce == Len(Records) = 1 /\ Len(Records[1].positions) = 1

ThePos == Records[1].positions[1]

\* the whitespace-delimited token right before offset start: the 1-based
\* index of its last character (0 if there is none), its 0-based begin, itself
AdjLast(text, start) == Max({k \in 0..start : k = 0 \/ text[k] \notin Whitespace})

AdjBegin(text, start) ==
    Min({j \in 1..(AdjLast(text, start) + 1) :
            \A i \in j..AdjLast(text, start) : text[i] \notin Whitespace}) - 1

AdjToken(text, start) == SubSeq(text, AdjBegin(text, start) + 1, AdjLast(text, start))

AdjIsTitle(text, start) == lower(rstrip_chars(AdjToken(text, start), TitlePunct)) \in TITLES

\* C1: a request whose text is empty or only whitespace, or whose body has
\* no "text" field, is answered {"names": []} and the recognizer is not
\* invoked during it.
C1_BlankTextFastPath ==
    (Done /\ BlankText) => (response = [names |-> <<>>] /\ nlp_calls = 0)

\* a whitespace-only text for which the recognizer would have found an entity
C1_Witness ==
    Done /\ data.has_text /\ Text # <<>> /\ BlankText /\ Len(Recognized) = 1

\* C2: every recorded position satisfies 0 <= start < end <= length(text),
\* and expand_with_title returns an index in 0..start for every start.
C2_PositionsInRange ==
    Done =>
      /\ \A r \in RecordIx : \A p \in PosIx(r) :
            LET pos == Records[r].positions[p]
            IN  0 <= pos.start /\ pos.start < pos.end /\ pos.end <= Len(Text)
      /\ \A start \in 0..Len(Text) : expand_with_title(Text, start) \in 0..start

\* an entity recorded with its start moved back over a title
C2_Witness ==
    Done /\ OneEntity /\ RecordedOnce /\ ThePos.start < TheEnt.start_char

\* C3 as claimed: every entity preceded by a title token is accepted, is
\* recorded from the index at which that token begins, and its name begins
\* with the token; an accepted entity not preceded by a title is recorded
\* from its own start_char.
C3_TitleAlwaysAccepted ==
    (Done /\ OneEntity) =>
      IF AdjIsTitle(Text, TheEnt.start_char)
      THEN /\ RecordedOnce
           /\ ThePos.start = AdjBegin(Text, TheEnt.start_char)
           /\ startswith(Records[1].name, AdjToken(Text, TheEnt.start_char))
      ELSE RecordedOnce => ThePos.start = TheEnt.start_char

\* C3, amended: the same for every entity that is labelled PERSON or whose
\* text is not whitespace-only.
C3_TitleExpansion ==
    (Done /\ OneEntity) =>
      IF AdjIsTitle(Text, TheEnt.start_char)
      THEN (TheEnt.label_ = "PERSON" \/ strip(ent_text(TheEnt, Text)) # <<>>) =>
             /\ RecordedOnce
             /\ ThePos.start = AdjBegin(Text, TheEnt.start_char)
             /\ startswith(Records[1].name, AdjToken(Text, TheEnt.start_char))
      ELSE RecordedOnce => ThePos.start = TheEnt.start_char

\* an ORG entity after a title word that also occurs earlier in the text,
\* recorded from the adjacent occurrence
C3_Witness ==
    /\ Done /\ OneEntity /\ RecordedOnce
    /\ TheEnt.label_ = "ORG"
    /\ AdjIsTitle(Text, TheEnt.start_char)
    /\ ThePos.start = AdjBegin(Text, TheEnt.start_char)
    /\ ThePos.start > 0
    /\ rfind(Text, AdjToken(Text, TheEnt.start_char)) >= 0
    /\ \E i \in 0..(ThePos.start - 1) :
          Slice(Text, i, i + Len(AdjToken(Text, TheEnt.start_char)))
            = AdjToken(Text, TheEnt.start_char)

\* C4 as claimed: the recorded end is the entity's end_char, and an entity
\* whose text is X followed by a possessive marker is recorded under the
\* name X.
C4_NameIsEntityTextWithoutMarker ==
    (Done /\ OneEntity /\ RecordedOnce) =>
      /\ ThePos.end = TheEnt.end_char
      /\ EndsWithMarker(ent_text(TheEnt, Text)) =>
            Records[1].name = DropMarker(ent_text(TheEnt, Text))

\* C4, amended: the recorded end is the entity's end_char, and for an
\* entity whose text ends with a possessive marker the name is the recorded
\* span (from the title-expanded start) without the marker, trimmed, while
\* the position still covers the marker.
C4_EndKeepsMarker ==
    (Done /\ OneEntity /\ RecordedOnce) =>
      /\ ThePos.end = TheEnt.end_char
      /\ EndsWithMarker(ent_text(TheEnt, Text)) =>
            /\ Records[1].name = strip(Slice(Text, ThePos.start, TheEnt.end_char - 2))
            /\ EndsWithMarker(Slice(Text, ThePos.start, ThePos.end))

\* an entity ending in a marker, recorded under a name without it
C4_Witness ==
    /\ Done /\ OneEntity /\ RecordedOnce
    /\ EndsWithMarker(ent_text(TheEnt, Text))
    /\ ~EndsWithMarker(Records[1].name)
    /\ ThePos.end = TheEnt.end_char

\* the entities that were accepted with a non-empty name
Kept == {i \in 1..Len(log) : log[i].person /\ log[i].name # <<>>}

RECURSIVE SumPositions(_)
SumPositions(r) == IF r = 0 THEN 0 ELSE Len(Records[r].positions) + SumPositions(r - 1)

\* C5: at most one record per name; a name to which k accepted entities
\* normalize has one record with k positions; the positions of all records
\* together are as many as the accepted entities with a non-empty name.
C5_OneRecordPerName ==
    Done =>
      /\ \A r1, r2 \in RecordIx : Records[r1].name = Records[r2].name => r1 = r2
      /\ \A i \in Kept : \E r \in RecordIx : Records[r].name = log[i].name
      /\ \A r \in RecordIx :
            Len(Records[r].positions)
              = Cardinality({i \in Kept : log[i].name = Records[r].name})
      /\ \A r \in RecordIx : Len(Records[r].positions) >= 1
      /\ SumPositions(Len(Records)) = Cardinality(Kept)

\* two entities grouped under one name
C5_Witness ==
    /\ Done /\ Len(Records) = 1 /\ Len(Records[1].positions) = 2
    /\ Records[1].positions[1] # Records[1].positions[2]

\* the decision C6 states, with "ends with" and "starts with" read literally
ClaimedPossessive(ent, text) ==
    \/ EndsWithMarker(ent_text(ent, text))
    \/ StartsWithMarker(Slice(text, ent.end_char, Len(text)))

ClaimedPerson(ent, text) ==
    IF ent.label_ = "PERSON" THEN TRUE
    ELSE IF \A i \in 1..Len(ent_text(ent, text)) : ent_text(ent, text)[i] \in Whitespace
         THEN FALSE
    ELSE IF AdjIsTitle(text, ent.start_char) THEN TRUE
    ELSE ClaimedPossessive(ent, text) /\ ent.label_ \notin {"ORG", "GPE", "FAC", "NORP", "EVENT"}

\* C6: is_likely_person decides exactly as the claim states; an ORG entity
\* with no preceding title is excluded from the results.
C6_PersonDecision ==
    (Done /\ OneEntity) =>
      /\ log[1].person = ClaimedPerson(TheEnt, Text)
      /\ (TheEnt.label_ = "ORG" /\ ~AdjIsTitle(Text, TheEnt.start_char)) => Records = <<>>

\* C7: a text requested again gets the response it got the first time.
C7_SameTextSameResponse ==
    Done => response = served[Text].first

\* a text answered with a name, requested again after a request for another
\* text
C7_Witness ==
    /\ Done /\ Records # <<>>
    /\ served[Text].count >= 2
    /\ nreq >= 3
    /\ \E t \in DOMAIN served : t # Text /\ served[t].first.names # <<>>

\* the recognizer's entities are in text order: one after the other
InTextOrder(ents) ==
    \A i \in 1..(Len(ents) - 1) : ents[i].end_char <= ents[i + 1].start_char

FirstKept(name) == Min({i \in Kept : log[i].name = name})

\* C8: the records are in the order in which their names were first
\* accepted; with the entities in text order, the positions of each record
\* are in ascending order of start.
C8_ResponseOrder ==
    Done =>
      /\ \A r1, r2 \in RecordIx :
            r1 < r2 => FirstKept(Records[r1].name) < FirstKept(Records[r2].name)
      /\ InTextOrder(Recognized) =>
            \A r \in RecordIx : \A p1, p2 \in PosIx(r) :
                p1 < p2 => Records[r].positions[p1].start <= Records[r].positions[p2].start

\* three entities in text order: two records, the first with two positions
C8_Witness ==
    /\ Done /\ InTextOrder(Recognized) /\ Len(Recognized) = 3
    /\ Len(Records) = 2
    /\ Len(Records[1].positions) = 2
    /\ Records[1].positions[1].start < Records[1].positions[2].start

\* C9: the text between a recorded start and end, trimmed, with one
\* trailing possessive marker removed and trimmed again, is the record's name.
C9_PositionsReproduceName ==
    Done =>
      \A r \in RecordIx : \A p \in PosIx(r) :
          Normalized(Slice(Text, Records[r].positions[p].start, Records[r].positions[p].end))
            = Records[r].name

\* a record whose name differs from the text of its span
C9_Witness ==
    /\ Done /\ RecordedOnce
    /\ Slice(Text, ThePos.start, ThePos.end) # Records[1].name
    /\ EndsWithMarker(Slice(Text, ThePos.start, ThePos.end))

Trimmed(s) == s = <<>> \/ (s[1] \notin Whitespace /\ s[Len(s)] \notin Whitespace)

\* C10 as claimed: every name is non-empty, has no leading or trailing
\* whitespace and does not end with a possessive marker.
C10_NoTrailingMarker ==
    Done => \A r \in RecordIx :
        /\ Records[r].name # <<>>
        /\ Trimmed(Records[r].name)
        /\ ~EndsWithMarker(Records[r].name)

\* C10, amended: every name is non-empty and has no leading or trailing
\* whitespace; one trailing marker of the span is removed, so a name ends
\* with a marker only when the trimmed span, without its last marker and
\* trimmed again, still ends with one.
C10_NameNormalizedOnce ==
    Done => \A r \in RecordIx :
        /\ Records[r].name # <<>>
        /\ Trimmed(Records[r].name)
        /\ EndsWithMarker(Records[r].name) =>
              \A p \in PosIx(r) :
                LET span == strip(Slice(Text, Records[r].positions[p].start,
                                        Records[r].positions[p].end))
                IN  /\ EndsWithMarker(span)
                    /\ EndsWithMarker(rstrip(SubSeq(span, 1, Len(span) - 2)))

\* a span ending in two markers, recorded under a name ending in one
C10_Witness ==
    Done /\ RecordedOnce /\ EndsWithMarker(Records[1].name)

====
